---------------------------- MODULE Spec2Model ----------------------------
(***************************************************************************)
(* MyImpression: the mode selector of src/main.py (MyImpressionApp) with   *)
(* the button monitor of src/modules/button_handler.py.                    *)
(*                                                                         *)
(* Two threads share current_mode and switch without a lock:               *)
(*   - the scheduler thread runs MyImpressionApp.start(): the startup      *)
(*     switch_mode("photo_cycle"), then the loop check_and_switch_mode();  *)
(*     run_current_mode(); sleep(0.1);                                     *)
(*   - the button thread runs ButtonHandler._monitor_buttons(), which      *)
(*     calls MyImpressionApp._on_button_press(label) on every edge event.  *)
(* Each action is one step between two accesses of the shared fields, so   *)
(* the interleavings of the two threads are those of the Python bytecode.  *)
(* Time is counted in units of 100 ms.                                     *)
(*                                                                         *)
(* Further parts, each with a specification of its own: the compositor     *)
(* DisplayUtils.resize_with_aspect_ratio, the RSS image modes and their    *)
(* image cache, the weather modes with WeatherAPIClient, and ButtonHandler *)
(* with stop() and failing reads and callbacks.                            *)
(***************************************************************************)
EXTENDS Integers, Sequences, FiniteSets, TLC

VARIABLES
    hw,                 \* GPIO: "ok", "failed" (chip request failed), "absent"
    config,             \* the "buttons" section of the loaded configuration
    running,            \* MyImpressionApp.running
    bh_running,         \* ButtonHandler.running
    current_mode,       \* MyImpressionApp.current_mode
    switch,             \* MyImpressionApp.switch
    last_button_press,  \* MyImpressionApp.last_button_press
    now,                \* time.time()
    pc,                 \* position of the scheduler thread
    target,             \* local target_mode of check_and_switch_mode
    ret,                \* what check_and_switch_mode returned in this tick
    exc,                \* exception in flight in run_current_mode
    in_update,          \* modes whose update_display is executing
    bpc,                \* position of the button thread
    bnum,               \* local button_num of _on_button_press
    events,             \* edge events the kernel holds for read_edge_events
    ev,                 \* the event _monitor_buttons is handling
    wake,               \* when the time.sleep of _flash_led ends
    acc_edge,           \* when the button of the latest accepted press went down
    sm_arg,             \* argument of the latest switch_mode call
    sm_pre,             \* current_mode when that call began
    sm_log,             \* what that call logged
    sm_ack,             \* flash count of the LED pattern thread it started
    led_left,           \* flashes the latest LED pattern thread has still to make
    tick_updates,       \* update_display invocations in this tick
    tick_errs,          \* DisplayUtils.show_error calls in this tick
    tick_exc,           \* exception caught by run_current_mode in this tick
    presses,            \* presses accepted since the scheduler last looked
    raced,              \* switch was written after line 215 of this call
    rpc,                \* position inside DisplayUtils.resize_with_aspect_ratio
    src_size,           \* img.size of the image passed in
    target_size,        \* the argument target_size
    fill_screen,        \* the argument fill_screen
    auto_rotate,        \* the argument auto_rotate
    img_size,           \* img.size after the auto-rotate step
    rotated,            \* _rotate_for_best_fit returned img.rotate(90, expand=True)
    new_size,           \* (new_width, new_height)
    paste_at,           \* (x, y) of new_img.paste
    out,                \* "canvas" when an image is returned, or the exception
    out_size,           \* size of the image returned
    rss_now,            \* time.time() as the RSS mode reads it
    cached_images,      \* the RSS mode's cached_images (the URLs, in order)
    current_index,      \* the RSS mode's current_index
    last_update,        \* the RSS mode's last_update
    last_fetch,         \* the RSS mode's last_fetch
    cache_files,        \* the files of the RSS mode's cache directory
    hash_seed,          \* the salt of str.__hash__ in this process
    rss_op,             \* the latest operation on the RSS mode
    call_fetch,         \* outcome of the feed request of the latest call
    call_shows,         \* display calls (set_image and show) of the latest call
    call_http,          \* HTTP requests for an image in the latest call
    call_sel,           \* index _get_next_image took in the latest call
    call_img,           \* image _download_image returned in the latest call
    call_url,           \* URL _download_image was called with
    downloaded,         \* URLs whose download has written a cache file
    weather_now,        \* time.time() as the weather mode reads it
    weather_kind,       \* the class of the weather mode
    weather_cache,      \* fetched_at of the data in the cache file
    weather_last_update,\* the weather mode's last_update
    weather_op,         \* the latest operation on the weather mode
    weather_api,        \* what became of the API call of the latest call
    weather_data,       \* fetched_at of the data get_weather_data returned
    weather_shown,      \* the weather image was set and shown in the latest call
    weather_errs,       \* show_error calls of the latest call
    weather_exc,        \* an exception was raised during the latest call
    mon_pc,             \* position of the thread in _monitor_buttons
    mon_running,        \* ButtonHandler.running, with stop() modelled
    mon_queue,          \* edge events the kernel holds
    mon_batch,          \* what is left of the list read_edge_events returned
    mon_ev,             \* the event of the current round of the for loop
    mon_late,           \* running was cleared before that round began
    mon_seen,           \* edge events reported so far
    mon_calls,          \* events for which the callback was invoked
    mon_caught,         \* exceptions caught at line 142 so far
    mon_err_at          \* events reported when the latest exception was caught

vars == <<hw, config, running, bh_running, current_mode, switch, last_button_press,
          now, pc, target, ret, exc, in_update, bpc, bnum,
          events, ev, wake, acc_edge,
          sm_arg, sm_pre, sm_log, sm_ack, led_left, tick_updates, tick_errs, tick_exc,
          presses, raced, rpc, src_size, target_size, fill_screen, auto_rotate,
          img_size, rotated, new_size, paste_at, out, out_size,
          rss_now, cached_images, current_index, last_update, last_fetch,
          cache_files, hash_seed, rss_op, call_fetch, call_shows, call_http,
          call_sel, call_img, call_url, downloaded,
          weather_now, weather_kind, weather_cache, weather_last_update,
          weather_op, weather_api, weather_data, weather_shown, weather_errs,
          weather_exc,
          mon_pc, mon_running, mon_queue, mon_batch, mon_ev, mon_late, mon_seen,
          mon_calls, mon_caught, mon_err_at>>

\* the state of the mode selector
appVars == <<hw, config, running, bh_running, current_mode, switch,
             last_button_press, now, pc, target, ret, exc, in_update, bpc, bnum,
             events, ev, wake, acc_edge,
             sm_arg, sm_pre, sm_log, sm_ack, led_left, tick_updates, tick_errs, tick_exc,
             presses, raced>>

\* the arguments of resize_with_aspect_ratio
resizeArgs == <<src_size, target_size, fill_screen, auto_rotate>>

\* the state of one call of resize_with_aspect_ratio
resizeVars == <<rpc, resizeArgs, img_size, rotated, new_size, paste_at, out,
                out_size>>

\* the state of an RSS image mode, its cache directory and its latest call
rssVars == <<rss_now, cached_images, current_index, last_update, last_fetch,
             cache_files, hash_seed, rss_op, call_fetch, call_shows, call_http,
             call_sel, call_img, call_url, downloaded>>

\* the state of a weather mode, its cache file and its latest call
weatherVars == <<weather_now, weather_kind, weather_cache, weather_last_update,
                 weather_op, weather_api, weather_data, weather_shown,
                 weather_errs, weather_exc>>

\* the state of ButtonHandler where it is modelled with stop() and errors
handlerVars == <<mon_pc, mon_running, mon_queue, mon_batch, mon_ev, mon_late,
                 mon_seen, mon_calls, mon_caught, mon_err_at>>

\* the state of the parts that are modelled on their own
modeVars == <<rssVars, weatherVars, handlerVars>>

-----------------------------------------------------------------------------
(* Bounds of the model *)

\* the clock stops after MaxTime units of 100 ms
MaxTime == 5

\* where the sleeps of the button thread are modelled, the clock stops after
\* MaxWait units of 100 ms
MaxWait == 9

\* edge events the kernel holds at most before the monitor thread reads them
MaxQueue == 1

-----------------------------------------------------------------------------
(* Constants of the program *)

\* Python's None, for the fields that hold a mode name
None == "None"

\* Python's None, for the field switch that holds a button number
NoSwitch == 0 - 1

\* the debounce window, 0.5 s
Debounce == 5

\* _flash_led(0.3): the LED stays on, and the button thread asleep, for 0.3 s
Flash == 3

\* no edge event
NoEvent == <<"none", 0>>

\* no image: Python's None where an image is expected
NoImage == "none"

\* no image was selected
NoIndex == 0 - 1

\* no weather data: Python's None where the data dictionary is expected
NoData == 0 - 1

\* time.time() is a Unix time: far more than 0.5 s after last_button_press = 0
StartTime == Debounce

\* self.modes
Modes == {"photo_cycle", "tumblr_rss", "news_feed"}

\* names that are no key of self.modes
UnknownModes == {"weather"}

\* ButtonHandler.LABELS
Labels == {"A", "B", "C", "D"}

\* button_map of _on_button_press
ButtonMap == [b \in Labels |->
                 CASE b = "A" -> 0 [] b = "B" -> 1 [] b = "C" -> 2 [] b = "D" -> 3]

\* button_modes of _on_button_press and of check_and_switch_mode
ButtonModes == [n \in 0..3 |->
                   CASE n = 0 -> "photo_cycle" [] n = 1 -> "tumblr_rss"
                     [] n = 2 -> "news_feed"   [] n = 3 -> "photo_cycle"]

\* the key of button number n in the "buttons" section: button_1 .. button_4
ButtonKey == [n \in 0..3 |->
                 CASE n = 0 -> "button_1" [] n = 1 -> "button_2"
                   [] n = 2 -> "button_3" [] n = 3 -> "button_4"]

\* the "buttons" section of _get_default_config
DefaultButtons ==
    [k \in {"A", "B", "C", "D"} |->
        CASE k = "A" -> "photo_cycle" [] k = "B" -> "tumblr_rss"
          [] k = "C" -> "news_feed"   [] k = "D" -> "photo_cycle"]

\* "buttons" sections with the keys button_1 .. button_4: a remapping of
\* the registered modes, and a partial one that names an unregistered mode
RemappedButtons ==
    [k \in {"button_1", "button_2", "button_3", "button_4"} |->
        CASE k = "button_1" -> "deviantart_rss" [] k = "button_2" -> "photo_cycle"
          [] k = "button_3" -> "tumblr_rss"     [] k = "button_4" -> "news_feed"]

PartialButtons ==
    [k \in {"button_1", "button_3"} |->
        CASE k = "button_1" -> "deviantart_rss" [] k = "button_3" -> "photo_cycle"]

LoadedButtons == {DefaultButtons, RemappedButtons, PartialButtons}

\* the top-level keys of the dictionary _get_default_config returns
DefaultSections == {"display", "buttons", "photo_cycle", "tumblr_rss", "news_feed"}

\* available_modes of test_default_config
AvailableModes == {"photo_cycle", "tumblr_rss", "deviantart_rss", "news_feed"}

\* config.get("buttons", {}).get(key) for the key of button number n
ConfiguredMode(n) ==
    IF ButtonKey[n] \in DOMAIN config THEN config[ButtonKey[n]] ELSE None

\* mode_patterns.get(mode_name, 1) of _indicate_mode_change
ModePatterns(mode_name) ==
    CASE mode_name = "photo_cycle" -> 1
      [] mode_name = "tumblr_rss"  -> 2
      [] mode_name = "news_feed"   -> 3
      [] OTHER                     -> 1

\* whether the class of the registered mode object defines update_display
HasUpdateDisplay(mode_name) ==
    CASE mode_name = "photo_cycle" -> FALSE   \* PhotoCycleMode: run(running_flag) only
      [] mode_name = "tumblr_rss"  -> TRUE    \* TumblrRSSMode.update_display
      [] mode_name = "news_feed"   -> FALSE   \* NewsFeedMode: run(running_flag) only
      [] OTHER                     -> FALSE

-----------------------------------------------------------------------------
(* Initial state: MyImpressionApp.__init__ has returned, start() has set    *)
(* running and started the button handler (lines 244-254)                   *)

InitApp ==
    /\ hw \in {"ok", "failed", "absent"}
    /\ running = TRUE
    /\ bh_running = (hw = "ok")
    /\ current_mode = None
    /\ switch = NoSwitch
    /\ last_button_press = 0
    /\ now = StartTime
    /\ pc = "start"
    /\ target = None
    /\ ret = "none"
    /\ exc = "none"
    /\ in_update = {}
    /\ bpc = "wait"
    /\ bnum = NoSwitch
    /\ events = << >>
    /\ ev = NoEvent
    /\ wake = 0
    /\ acc_edge = 0
    /\ sm_arg = None
    /\ sm_pre = None
    /\ sm_log = "none"
    /\ sm_ack = 0
    /\ led_left = 0
    /\ tick_updates = 0
    /\ tick_errs = 0
    /\ tick_exc = "none"
    /\ presses = << >>
    /\ raced = FALSE

\* no call of resize_with_aspect_ratio is under way
NoResize ==
    /\ rpc = "idle"
    /\ src_size = <<1, 1>>
    /\ target_size = <<1, 1>>
    /\ fill_screen = FALSE
    /\ auto_rotate = FALSE
    /\ img_size = <<1, 1>>
    /\ rotated = FALSE
    /\ new_size = <<0, 0>>
    /\ paste_at = <<0, 0>>
    /\ out = "none"
    /\ out_size = <<0, 0>>

\* no RSS mode is constructed
NoRss ==
    /\ rss_now = 0
    /\ cached_images = << >>
    /\ current_index = 0
    /\ last_update = 0
    /\ last_fetch = 0
    /\ cache_files = {}
    /\ hash_seed = 1
    /\ rss_op = "none"
    /\ call_fetch = "none"
    /\ call_shows = 0
    /\ call_http = 0
    /\ call_sel = NoIndex
    /\ call_img = NoImage
    /\ call_url = NoImage
    /\ downloaded = {}

\* no weather mode is constructed
NoWeather ==
    /\ weather_now = 0
    /\ weather_kind = "none"
    /\ weather_cache = NoData
    /\ weather_last_update = 0
    /\ weather_op = "none"
    /\ weather_api = "none"
    /\ weather_data = NoData
    /\ weather_shown = FALSE
    /\ weather_errs = 0
    /\ weather_exc = FALSE

\* ButtonHandler is not modelled with stop() and errors
NoHandler ==
    /\ mon_pc = "none"
    /\ mon_running = FALSE
    /\ mon_queue = << >>
    /\ mon_batch = << >>
    /\ mon_ev = 0
    /\ mon_late = FALSE
    /\ mon_seen = 0
    /\ mon_calls = {}
    /\ mon_caught = 0
    /\ mon_err_at = 0

\* none of the parts that are modelled on their own is under way
NoModes ==
    /\ NoRss
    /\ NoWeather
    /\ NoHandler

\* the configuration file is the one _create_default_config writes
Init ==
    /\ config = DefaultButtons
    /\ InitApp
    /\ NoResize
    /\ NoModes

\* the configuration file is any of the files of LoadedButtons
InitConfig ==
    /\ config \in LoadedButtons
    /\ InitApp
    /\ NoResize
    /\ NoModes

-----------------------------------------------------------------------------
(* switch_mode and _indicate_mode_change *)

\* _indicate_mode_change with a table that gives every mode one flash
IndicateModeChangeConst(mode_name) ==
    IF hw = "absent" THEN 0 ELSE 1

\* the flash count of the pattern thread started, 0 when none is started
IndicateModeChange(mode_name) ==
    IF hw = "absent" THEN 0 ELSE ModePatterns(mode_name)

\* switch_mode without lines 175-177: the name is not looked up in self.modes
SwitchModeNoValidate(mode_name) ==
    /\ sm_arg' = mode_name
    /\ sm_pre' = current_mode
    /\ IF current_mode = mode_name
       THEN /\ sm_log' = "info: already in mode"
            /\ sm_ack' = 0
            /\ led_left' = led_left
            /\ current_mode' = current_mode
       ELSE /\ current_mode' = mode_name
            /\ sm_log' = "info: switched"
            /\ sm_ack' = IndicateModeChange(mode_name)
            /\ led_left' = IndicateModeChange(mode_name)

\* switch_mode without lines 180-182: the same mode is entered again
SwitchModeNoSameCheck(mode_name) ==
    /\ sm_arg' = mode_name
    /\ sm_pre' = current_mode
    /\ IF mode_name \notin Modes
       THEN /\ sm_log' = "error: unknown mode"
            /\ sm_ack' = 0
            /\ led_left' = led_left
            /\ current_mode' = current_mode
       ELSE /\ current_mode' = mode_name
            /\ sm_log' = "info: switched"
            /\ sm_ack' = IndicateModeChange(mode_name)
            /\ led_left' = IndicateModeChange(mode_name)

\* switch_mode, lines 173-189
SwitchMode(mode_name) ==
    /\ sm_arg' = mode_name
    /\ sm_pre' = current_mode
    /\ IF mode_name \notin Modes
       THEN /\ sm_log' = "error: unknown mode"
            /\ sm_ack' = 0
            /\ led_left' = led_left
            /\ current_mode' = current_mode
       ELSE IF current_mode = mode_name
       THEN /\ sm_log' = "info: already in mode"
            /\ sm_ack' = 0
            /\ led_left' = led_left
            /\ current_mode' = current_mode
       ELSE /\ current_mode' = mode_name
            /\ sm_log' = "info: switched"
            /\ sm_ack' = IndicateModeChange(mode_name)
            /\ led_left' = IndicateModeChange(mode_name)

schedLocals == <<target, ret, exc, in_update>>
monitorVars == <<events, ev, wake, acc_edge>>
buttonVars == <<last_button_press, bpc, bnum, monitorVars>>
smVars == <<sm_arg, sm_pre, sm_log, sm_ack, led_left>>
tickVars == <<tick_updates, tick_errs, tick_exc>>

obsVars == <<presses, raced>>

-----------------------------------------------------------------------------
(* The scheduler thread: MyImpressionApp.start *)

\* line 257: self.switch_mode("photo_cycle")
StartSwitchMode ==
    /\ pc = "start"
    /\ SwitchMode("photo_cycle")
    /\ pc' = "loop"
    /\ UNCHANGED <<modeVars, resizeVars, hw, config, running, bh_running, switch, now>>
    /\ UNCHANGED <<schedLocals, buttonVars, tickVars, obsVars>>

\* line 261: while self.running
Loop ==
    /\ pc = "loop"
    /\ IF running
       THEN /\ pc' = "check"
            /\ ret' = "none"
            /\ tick_updates' = 0
            /\ tick_errs' = 0
            /\ tick_exc' = "none"
       ELSE /\ pc' = "stopped"
            /\ UNCHANGED <<ret, tickVars>>
    /\ UNCHANGED <<modeVars, resizeVars, hw, config, running, bh_running, current_mode, switch, now>>
    /\ UNCHANGED <<target, exc, in_update, buttonVars, smVars, obsVars>>

\* check_and_switch_mode, line 215: if self.switch is not None
CheckSwitch ==
    /\ pc = "check"
    /\ IF switch # NoSwitch
       THEN pc' = "read" /\ ret' = ret
       ELSE pc' = "run" /\ ret' = "False"
    /\ presses' = << >>
    /\ raced' = FALSE
    /\ UNCHANGED <<modeVars, resizeVars, hw, config, running, bh_running, current_mode, switch, now>>
    /\ UNCHANGED <<target, exc, in_update, buttonVars, smVars, tickVars>>

\* check_and_switch_mode, line 218: target_mode = button_modes[self.switch]
ReadSwitch ==
    /\ pc = "read"
    /\ target' = ButtonModes[switch]
    /\ pc' = "apply"
    /\ presses' = << >>
    /\ UNCHANGED <<modeVars, resizeVars, hw, config, running, bh_running, current_mode, switch, now>>
    /\ UNCHANGED <<ret, exc, in_update, buttonVars, smVars, tickVars, raced>>

\* check_and_switch_mode whose switch_mode calls flash_pattern() itself: the
\* call returns when the pattern is over
ApplySwitchInline ==
    /\ pc = "apply"
    /\ SwitchMode(target)
    /\ pc' = IF led_left' > 0 THEN "flashing" ELSE "clear"
    /\ presses' = << >>
    /\ UNCHANGED <<modeVars, resizeVars, hw, config, running, bh_running, switch, now>>
    /\ UNCHANGED <<schedLocals, buttonVars, tickVars, raced>>

\* check_and_switch_mode, line 221: self.switch_mode(target_mode)
ApplySwitch ==
    /\ pc = "apply"
    /\ SwitchMode(target)
    /\ pc' = "clear"
    /\ presses' = << >>
    /\ UNCHANGED <<modeVars, resizeVars, hw, config, running, bh_running, switch, now>>
    /\ UNCHANGED <<schedLocals, buttonVars, tickVars, raced>>

\* check_and_switch_mode without line 224: the flag is never reset
ClearSwitchKeep ==
    /\ pc = "clear"
    /\ ret' = "True"
    /\ pc' = "run"
    /\ presses' = << >>
    /\ UNCHANGED <<modeVars, resizeVars, hw, config, running, bh_running, current_mode, switch, now>>
    /\ UNCHANGED <<target, exc, in_update, buttonVars, smVars, tickVars, raced>>

\* check_and_switch_mode, lines 224-225: self.switch = None; return True
ClearSwitch ==
    /\ pc = "clear"
    /\ switch' = NoSwitch
    /\ ret' = "True"
    /\ pc' = "run"
    /\ presses' = << >>
    /\ UNCHANGED <<modeVars, resizeVars, hw, config, running, bh_running, current_mode, now>>
    /\ UNCHANGED <<target, exc, in_update, buttonVars, smVars, tickVars, raced>>

\* run_current_mode, lines 230-233: the guard, the registry lookup and the
\* lookup of update_display on the mode object, which raises AttributeError
\* when the class does not define it
RunCurrentMode ==
    /\ pc = "run"
    /\ IF current_mode # None /\ current_mode \in Modes
       THEN IF HasUpdateDisplay(current_mode)
            THEN /\ in_update' = in_update \cup {current_mode}
                 /\ tick_updates' = tick_updates + 1
                 /\ exc' = exc
                 /\ pc' = "updating"
            ELSE /\ exc' = "AttributeError"
                 /\ pc' = "except"
                 /\ UNCHANGED <<in_update, tick_updates>>
       ELSE /\ pc' = "sleep"
            /\ UNCHANGED <<in_update, tick_updates, exc>>
    /\ UNCHANGED <<modeVars, resizeVars, hw, config, running, bh_running, current_mode, switch, now>>
    /\ UNCHANGED <<target, ret, buttonVars, smVars, tick_errs, tick_exc, obsVars>>

\* mode.update_display() returns
UpdateReturn ==
    /\ pc = "updating"
    /\ in_update' = {}
    /\ pc' = "sleep"
    /\ UNCHANGED <<modeVars, resizeVars, hw, config, running, bh_running, current_mode, switch, now>>
    /\ UNCHANGED <<target, ret, exc, buttonVars, smVars, tickVars, obsVars>>

\* mode.update_display() raises an Exception
UpdateRaise ==
    /\ pc = "updating"
    /\ in_update' = {}
    /\ exc' = "Exception"
    /\ pc' = "except"
    /\ UNCHANGED <<modeVars, resizeVars, hw, config, running, bh_running, current_mode, switch, now>>
    /\ UNCHANGED <<target, ret, buttonVars, smVars, tickVars, obsVars>>

\* run_current_mode whose handler logs and raises again: the exception
\* leaves the loop of start(), which catches KeyboardInterrupt only
ExceptReraise ==
    /\ pc = "except"
    /\ tick_exc' = exc
    /\ pc' = "crashed"
    /\ UNCHANGED <<modeVars, resizeVars, hw, config, running, bh_running, current_mode, switch, now>>
    /\ UNCHANGED <<target, ret, exc, in_update, buttonVars, smVars>>
    /\ UNCHANGED <<tick_updates, tick_errs, obsVars>>

\* run_current_mode, lines 234-237: except Exception: log, show_error(...);
\* show_error catches a failure of the display itself (display_utils 215-219)
ExceptShowError ==
    /\ pc = "except"
    /\ tick_exc' = exc
    /\ exc' = "none"
    /\ tick_errs' = tick_errs + 1
    /\ pc' = "sleep"
    /\ UNCHANGED <<modeVars, resizeVars, hw, config, running, bh_running, current_mode, switch, now>>
    /\ UNCHANGED <<target, ret, in_update, buttonVars, smVars, tick_updates, obsVars>>

\* line 268: time.sleep(0.1)
Sleep ==
    /\ pc = "sleep"
    /\ pc' = "loop"
    /\ UNCHANGED <<modeVars, resizeVars, hw, config, running, bh_running, current_mode, switch, now>>
    /\ UNCHANGED <<schedLocals, buttonVars, smVars, tickVars, obsVars>>

\* lines 269-271 and stop(): KeyboardInterrupt anywhere inside the try block
KeyboardInterrupt ==
    /\ pc \in {"loop", "check", "read", "apply", "clear", "run", "updating",
               "except", "sleep"}
    /\ running' = FALSE
    /\ bh_running' = FALSE
    /\ in_update' = {}
    /\ exc' = "none"
    /\ pc' = "stopped"
    /\ UNCHANGED <<modeVars, resizeVars, hw, config, current_mode, switch, now>>
    /\ UNCHANGED <<target, ret, buttonVars, smVars, tickVars, obsVars>>

-----------------------------------------------------------------------------
(* The button thread: ButtonHandler._monitor_buttons calling               *)
(* MyImpressionApp._on_button_press.  The sleeps of _flash_led only delay  *)
(* this thread, and the time a press is called back at is any time: they   *)
(* are left out here and modelled with the monitor thread below.           *)

\* an edge event of button b (button_handler 122-140) and the debounce of
\* _on_button_press (main 147-154)
Press(b) ==
    /\ hw = "ok"
    /\ bh_running
    /\ bpc = "wait"
    /\ IF now - last_button_press < Debounce
       THEN UNCHANGED <<last_button_press, bnum, bpc>>
       ELSE /\ last_button_press' = now
            /\ bnum' = ButtonMap[b]
            /\ bpc' = "cmp"
    /\ UNCHANGED <<modeVars, monitorVars, resizeVars, hw, config, running, bh_running, current_mode, switch, now, pc>>
    /\ UNCHANGED <<schedLocals, smVars, tickVars, obsVars>>

\* _on_button_press, lines 158-161: if self.current_mode != target_mode
CompareMode ==
    /\ bpc = "cmp"
    /\ IF current_mode # ButtonModes[bnum]
       THEN /\ bpc' = "set"
            /\ presses' = presses
       ELSE /\ bpc' = "wait"
            /\ presses' = Append(presses, bnum)
    /\ UNCHANGED <<modeVars, monitorVars, resizeVars, hw, config, running, bh_running, current_mode, switch, now, pc>>
    /\ UNCHANGED <<schedLocals, last_button_press, bnum, smVars, tickVars, raced>>

\* _on_button_press switching the mode itself, on the button thread
SetSwitchDirect ==
    /\ bpc = "set"
    /\ current_mode' = ButtonModes[bnum]
    /\ bpc' = "wait"
    /\ presses' = Append(presses, bnum)
    /\ UNCHANGED <<modeVars, monitorVars, resizeVars, hw, config, running, bh_running, switch, now, pc, raced>>
    /\ UNCHANGED <<schedLocals, last_button_press, bnum, smVars, tickVars>>

\* _on_button_press, line 162: self.switch = button_num
SetSwitch ==
    /\ bpc = "set"
    /\ switch' = bnum
    /\ bpc' = "wait"
    /\ presses' = Append(presses, bnum)
    /\ raced' = (raced \/ pc \in {"read", "apply", "clear"})
    /\ UNCHANGED <<modeVars, monitorVars, resizeVars, hw, config, running, bh_running, current_mode, now, pc>>
    /\ UNCHANGED <<schedLocals, last_button_press, bnum, smVars, tickVars>>

\* time passes
Tick ==
    /\ now < StartTime + MaxTime
    /\ now' = now + 1
    /\ UNCHANGED <<modeVars, resizeVars, hw, config, running, bh_running, current_mode, switch, pc>>
    /\ UNCHANGED <<schedLocals, buttonVars, smVars, tickVars, obsVars>>

-----------------------------------------------------------------------------

Next ==
    \/ StartSwitchMode
    \/ Loop
    \/ CheckSwitch
    \/ ReadSwitch
    \/ ApplySwitch
    \/ ClearSwitch
    \/ RunCurrentMode
    \/ UpdateReturn
    \/ UpdateRaise
    \/ ExceptShowError
    \/ Sleep
    \/ KeyboardInterrupt
    \/ \E b \in Labels : Press(b)
    \/ CompareMode
    \/ SetSwitch
    \/ Tick

Spec == Init /\ [][Next]_vars

(* the same program started on any of the configuration files *)
SpecConfig == InitConfig /\ [][Next]_vars

(* switch_mode as a public method: besides start and check_and_switch_mode, *)
(* a caller on the scheduler thread applies it, between two ticks, to any   *)
(* name                                                                     *)
CallSwitchMode(mode_name) ==
    /\ pc = "sleep"
    /\ SwitchMode(mode_name)
    /\ UNCHANGED <<modeVars, resizeVars, hw, config, running, bh_running, switch, now, pc>>
    /\ UNCHANGED <<schedLocals, buttonVars, tickVars, obsVars>>

NextSwitch ==
    \/ Next
    \/ \E n \in Modes \cup UnknownModes : CallSwitchMode(n)

SpecSwitch == Init /\ [][NextSwitch]_vars

-----------------------------------------------------------------------------
(* The LED pattern thread: flash_pattern of _indicate_mode_change, started  *)
(* by threading.Thread(target=flash_pattern, daemon=True).start().  It may  *)
(* take any time, or block in the LED driver, between two flashes.          *)

\* one round of the loop of flash_pattern, lines 206-209:
\* self.button_handler._flash_led(0.2); time.sleep(0.1)
FlashPattern ==
    /\ led_left > 0
    /\ led_left' = led_left - 1
    /\ UNCHANGED <<modeVars, resizeVars, hw, config, running, bh_running, current_mode, switch, now, pc>>
    /\ UNCHANGED <<schedLocals, buttonVars, sm_arg, sm_pre, sm_log, sm_ack>>
    /\ UNCHANGED <<tickVars, obsVars>>

NextLed ==
    \/ Next
    \/ FlashPattern

SpecLed == Init /\ [][NextLed]_vars

-----------------------------------------------------------------------------
(* The monitor thread with its sleeps: ButtonHandler._monitor_buttons reads *)
(* the edge events the kernel queued, keeps the LED on for 0.3 s, calls     *)
(* MyImpressionApp._on_button_press, which keeps the LED on for another     *)
(* 0.3 s after a press it accepted.  The scheduler thread has made the      *)
(* startup switch and does not run meanwhile.                               *)

\* button b goes down: the kernel queues a falling-edge event, here with
\* the time of the press
EdgeEvent(b) ==
    /\ hw = "ok"
    /\ bh_running
    /\ Len(events) < MaxQueue
    /\ events' = Append(events, <<b, now>>)
    /\ UNCHANGED <<modeVars, resizeVars, hw, config, running, bh_running, current_mode, switch, now, pc>>
    /\ UNCHANGED <<schedLocals, last_button_press, bpc, bnum, ev, wake, acc_edge>>
    /\ UNCHANGED <<smVars, tickVars, obsVars>>

\* _monitor_buttons, lines 124-136: the next event is read and
\* _flash_led(0.3) switches the LED on and sleeps
ReadEdgeEvents ==
    /\ hw = "ok"
    /\ bh_running
    /\ bpc = "wait"
    /\ events # << >>
    /\ ev' = Head(events)
    /\ events' = Tail(events)
    /\ wake' = now + Flash
    /\ bpc' = "led"
    /\ UNCHANGED <<modeVars, resizeVars, hw, config, running, bh_running, current_mode, switch, now, pc>>
    /\ UNCHANGED <<schedLocals, last_button_press, bnum, acc_edge>>
    /\ UNCHANGED <<smVars, tickVars, obsVars>>

\* the sleep of line 136 is over and the callback runs: _on_button_press,
\* lines 146-169: the debounce on the time of the call, the comparison with
\* current_mode, the write of switch, and _flash_led(0.3) again
OnButtonPress ==
    /\ bpc = "led"
    /\ now >= wake
    /\ IF now - last_button_press < Debounce
       THEN /\ bpc' = "wait"
            /\ UNCHANGED <<last_button_press, bnum, acc_edge, switch, wake, presses>>
       ELSE /\ last_button_press' = now
            /\ acc_edge' = ev[2]
            /\ bnum' = ButtonMap[ev[1]]
            /\ switch' = IF current_mode # ButtonModes[bnum'] THEN bnum' ELSE switch
            /\ presses' = Append(presses, bnum')
            /\ wake' = now + Flash
            /\ bpc' = "ack"
    /\ ev' = NoEvent
    /\ UNCHANGED <<modeVars, resizeVars, hw, config, running, bh_running, current_mode, now, pc>>
    /\ UNCHANGED <<schedLocals, events, smVars, tickVars, raced>>

\* the sleep of line 169 is over: _on_button_press returns and
\* _monitor_buttons goes on to the next event
FlashLed ==
    /\ bpc = "ack"
    /\ now >= wake
    /\ bpc' = "wait"
    /\ UNCHANGED <<modeVars, resizeVars, hw, config, running, bh_running, current_mode, switch, now, pc>>
    /\ UNCHANGED <<schedLocals, last_button_press, bnum, monitorVars>>
    /\ UNCHANGED <<smVars, tickVars, obsVars>>

\* time passes
Wait ==
    /\ now < StartTime + MaxWait
    /\ now' = now + 1
    /\ UNCHANGED <<modeVars, resizeVars, hw, config, running, bh_running, current_mode, switch, pc>>
    /\ UNCHANGED <<schedLocals, buttonVars, smVars, tickVars, obsVars>>

NextMonitor ==
    \/ StartSwitchMode
    \/ \E b \in Labels : EdgeEvent(b)
    \/ ReadEdgeEvents
    \/ OnButtonPress
    \/ FlashLed
    \/ Wait

SpecMonitor == Init /\ [][NextMonitor]_vars

-----------------------------------------------------------------------------
(* The compositor: DisplayUtils.resize_with_aspect_ratio                    *)
(* (src/modules/display_utils.py 246-391)                                   *)
(*                                                                          *)
(* target_width / img_width is a division of Python floats (IEEE 754        *)
(* binary64, round to nearest even), img_width * scale is a multiplication  *)
(* of floats and int() truncates.  A scale is kept as the pair <<b, c>> of  *)
(* the integers it was divided from, and int(a * (b / c)) is computed       *)
(* exactly, rounding included, with integer arithmetic.                     *)

\* bounds: source sizes 1..MaxSrc and target sizes 1..MaxTgt in each axis
MaxSrc == 11

MaxTgt == 15

\* bits after the leading one in the significand of a Python float
MantissaBits == 52

\* the scenario of the specification: source 1200 x 1200 on a 800 x 480 display
ScenarioSource == <<1200, 1200>>

ScenarioTarget == <<800, 480>>

\* a / b < c / d as Python compares the two quotients: distinct quotients of
\* integers this small are distinct floats, equal quotients are equal floats
RatLess(a, b, c, d) == a * d < c * b

RECURSIVE FloorLog2(_, _)
\* floor(log2(b / c)): the binary exponent of the float b / c
FloorLog2(b, c) ==
    IF b >= 2 * c THEN FloorLog2(b, 2 * c) + 1
    ELSE IF b < c THEN FloorLog2(2 * b, c) - 1
    ELSE 0

RECURSIVE Pow2(_)
Pow2(k) == IF k = 0 THEN 1 ELSE 2 * Pow2(k - 1)

RECURSIVE Pow2Mod(_, _)
\* 2^k modulo m
Pow2Mod(k, m) == IF k = 0 THEN 1 % m ELSE (2 * Pow2Mod(k - 1, m)) % m

\* int(a * (b / c)) for positive integers.  With q = fl(b / c) = M * 2^-k,
\* k = MantissaBits - FloorLog2(b, c): M = round(b * 2^k / c), and
\* r = (b * 2^k) mod c decides the direction of the rounding.  a * q is
\* below the integer n = a * b / c only when q was rounded down and n
\* divides exactly; the product then rounds to n or to the float below n.
TruncMulDiv(a, b, c) ==
    LET n == (a * b) \div c
        f == (a * b) % c
    IN  IF f # 0 THEN n
        ELSE LET eq == FloorLog2(b, c)
                 xm == (b * Pow2Mod(MantissaBits - eq, 2 * c)) % (2 * c)
                 r == xm % c
                 odd == xm >= c
                 up == (2 * r > c) \/ (2 * r = c /\ odd)
             IN  IF up \/ r = 0 THEN n
                 ELSE LET en == FloorLog2(n, 1)
                          sh == en - eq - 1 - (IF n = Pow2(en) THEN 1 ELSE 0)
                          below == IF sh >= 0
                                   THEN a * r > c * Pow2(sh)
                                   ELSE a * r * Pow2(0 - sh) > c
                      IN  IF below THEN n - 1 ELSE n

\* min(p, q) and max(p, q) of two scales; Python returns the first on a tie
MinScale(p, q) == IF RatLess(q[1], q[2], p[1], p[2]) THEN q ELSE p

MaxScale(p, q) == IF RatLess(p[1], p[2], q[1], q[2]) THEN q ELSE p

\* _rotate_for_best_fit with the test rotated_fit_ratio >= current_fit_ratio
ShouldRotateOnTie(iw, ih, tw, th) ==
    LET current_fit_ratio == MinScale(<<tw, iw>>, <<th, ih>>)
        rotated_fit_ratio == MinScale(<<tw, ih>>, <<th, iw>>)
    IN  ~RatLess(rotated_fit_ratio[1], rotated_fit_ratio[2],
                 current_fit_ratio[1], current_fit_ratio[2])

\* _rotate_for_best_fit, lines 293-300: rotated_fit_ratio > current_fit_ratio
ShouldRotate(iw, ih, tw, th) ==
    LET current_fit_ratio == MinScale(<<tw, iw>>, <<th, ih>>)
        rotated_fit_ratio == MinScale(<<tw, ih>>, <<th, iw>>)
    IN  RatLess(current_fit_ratio[1], current_fit_ratio[2],
                rotated_fit_ratio[1], rotated_fit_ratio[2])

\* _resize_to_fit_screen taking the larger of the two scales
FitScaleMax(iw, ih, tw, th) == MaxScale(<<tw, iw>>, <<th, ih>>)

\* _resize_to_fit_screen, lines 368-370: scale = min(scale_w, scale_h)
FitScale(iw, ih, tw, th) == MinScale(<<tw, iw>>, <<th, ih>>)

\* _resize_to_fill_screen, lines 324-326: scale = max(scale_w, scale_h)
FillScale(iw, ih, tw, th) == MaxScale(<<tw, iw>>, <<th, ih>>)

\* lines 329-330 and 372-373: (int(img_width * scale), int(img_height * scale))
NewSize(size, scale) ==
    <<TruncMulDiv(size[1], scale[1], scale[2]),
      TruncMulDiv(size[2], scale[1], scale[2])>>

\* lines 333-346 and 376-389: img.resize raises ValueError("height and width
\* must be > 0") for an empty size; otherwise the canvas Image.new('RGB',
\* target_size, bg_color) is returned with the image pasted at (x, y)
ResizeAndPaste(size) ==
    /\ new_size' = size
    /\ IF size[1] < 1 \/ size[2] < 1
       THEN /\ out' = "ValueError"
            /\ UNCHANGED <<paste_at, out_size>>
       ELSE /\ paste_at' = <<(target_size[1] - size[1]) \div 2,
                             (target_size[2] - size[2]) \div 2>>
            /\ out' = "canvas"
            /\ out_size' = target_size
    /\ rpc' = "done"

\* the sizes and flags resize_with_aspect_ratio is called with
InitResize ==
    /\ config = DefaultButtons
    /\ InitApp
    /\ NoModes
    /\ hw = "absent"
    /\ rpc = "call"
    /\ \E s \in ((1..MaxSrc) \X (1..MaxSrc)) \cup {ScenarioSource} :
       \E t \in ((1..MaxTgt) \X (1..MaxTgt)) \cup {ScenarioTarget} :
          /\ src_size = s
          /\ target_size = t
          /\ img_size = s
    /\ fill_screen \in BOOLEAN
    /\ auto_rotate \in BOOLEAN
    /\ rotated = FALSE
    /\ new_size = <<0, 0>>
    /\ paste_at = <<0, 0>>
    /\ out = "none"
    /\ out_size = <<0, 0>>

\* resize_with_aspect_ratio, lines 262-268: the auto-rotate step;
\* img.rotate(90, expand=True) exchanges width and height
AutoRotate ==
    /\ rpc = "call"
    /\ rotated' = (auto_rotate /\ ShouldRotate(src_size[1], src_size[2],
                                               target_size[1], target_size[2]))
    /\ img_size' = IF rotated' THEN <<src_size[2], src_size[1]>> ELSE src_size
    /\ rpc' = "resize"
    /\ UNCHANGED <<modeVars, appVars, resizeArgs, new_size, paste_at, out, out_size>>

\* _resize_to_fill_screen
ResizeToFillScreen ==
    /\ rpc = "resize"
    /\ fill_screen
    /\ ResizeAndPaste(NewSize(img_size,
           FillScale(img_size[1], img_size[2], target_size[1], target_size[2])))
    /\ UNCHANGED <<modeVars, appVars, resizeArgs, img_size, rotated>>

\* _resize_to_fit_screen
ResizeToFitScreen ==
    /\ rpc = "resize"
    /\ ~fill_screen
    /\ ResizeAndPaste(NewSize(img_size,
           FitScale(img_size[1], img_size[2], target_size[1], target_size[2])))
    /\ UNCHANGED <<modeVars, appVars, resizeArgs, img_size, rotated>>

NextResize ==
    \/ AutoRotate
    \/ ResizeToFillScreen
    \/ ResizeToFitScreen

SpecResize == InitResize /\ [][NextResize]_vars

-----------------------------------------------------------------------------
(* The RSS image modes: TumblrRSSMode (src/modules/tumblr_rss.py),          *)
(* DeviantArtRSSMode (src/modules/deviantart_rss.py) and TwonksComicMode    *)
(* (src/modules/twonks_comic.py).  The three classes keep the same fields   *)
(* and their __init__, _fetch_rss_images, _get_next_image, _download_image  *)
(* and update_display have the same control flow; the line numbers below    *)
(* are those of tumblr_rss.py.  The scheduler thread is the only caller of  *)
(* update_display, so one call is one step.  The clock of this part counts  *)
(* seconds.                                                                 *)

\* the clock of the RSS modes stops at MaxClock
MaxClock == 8

\* images a feed response holds at most
MaxFeed == 3

\* what _show_loading_message takes at most (two reads of time.time() apart)
MaxDelay == 1

\* the configured display_time
DisplayTime == 2

\* the configured update_interval
UpdateInterval == 4

\* the configured max_posts
MaxPosts == 2

\* time.time() when the mode is constructed: the epoch is further back than
\* any interval, so the first call of update_display is due
StartClock == UpdateInterval

\* the image URLs a feed can name (valid per _is_valid_image_url)
Urls == {"u1", "u2", "u3"}

\* the salts of str.__hash__: one is drawn when the interpreter starts
HashSeeds == {1, 2}

\* what requests.get and the parse of the feed come to: an exception, or the
\* list new_images of lines 75-96 (possibly empty, possibly with duplicates)
FeedResponses ==
    { [kind |-> k, images |-> << >>] :
          k \in {"RequestException", "ParseError", "Exception"} }
    \cup { [kind |-> "ok", images |-> s] :
               s \in UNION { [1..n -> Urls] : n \in 0..MaxFeed } }

\* no feed request is made
NoResponse == [kind |-> "none", images |-> << >>]

\* lines 100-105: remove duplicates while preserving order
RECURSIVE UniqueImages(_, _)
UniqueImages(new_images, seen_urls) ==
    IF new_images = << >> THEN << >>
    ELSE IF Head(new_images) \in seen_urls
         THEN UniqueImages(Tail(new_images), seen_urls)
         ELSE <<Head(new_images)>>
              \o UniqueImages(Tail(new_images), seen_urls \cup {Head(new_images)})

\* unique_images[:self.max_posts]
Slice(s, n) == SubSeq(s, 1, IF Len(s) < n THEN Len(s) ELSE n)

\* _fetch_rss_images where a failed fetch empties the list
FetchRssImagesClearing(images, index, fetched, t, resp) ==
    IF t - fetched < UpdateInterval /\ images # << >>
    THEN [cached_images |-> images, current_index |-> index,
          last_fetch |-> fetched, requests |-> 0, result |-> "fresh"]
    ELSE IF resp.kind = "ok" /\ resp.images # << >>
    THEN [cached_images |-> Slice(UniqueImages(resp.images, {}), MaxPosts),
          current_index |-> 0, last_fetch |-> t, requests |-> 1,
          result |-> "fetched"]
    ELSE [cached_images |-> << >>, current_index |-> 0,
          last_fetch |-> t, requests |-> 1,
          result |-> IF resp.kind = "ok" THEN "no images" ELSE resp.kind]

\* _fetch_rss_images, lines 51-119, called at time t with the fields images,
\* index and fetched: the fields afterwards, the feed requests made and what
\* was logged.  No exception leaves the function: the three except clauses
\* of lines 114-119 cover Exception.
FetchRssImages(images, index, fetched, t, resp) ==
    IF t - fetched < UpdateInterval /\ images # << >>
    THEN [cached_images |-> images, current_index |-> index,
          last_fetch |-> fetched, requests |-> 0, result |-> "fresh"]
    ELSE IF resp.kind = "ok" /\ resp.images # << >>
    THEN [cached_images |-> Slice(UniqueImages(resp.images, {}), MaxPosts),
          current_index |-> 0, last_fetch |-> t, requests |-> 1,
          result |-> "fetched"]
    ELSE [cached_images |-> images, current_index |-> index,
          last_fetch |-> fetched, requests |-> 1,
          result |-> IF resp.kind = "ok" THEN "no images" ELSE resp.kind]

\* _get_next_image that advances without wrapping
GetNextImageNoWrap(images, index) ==
    [image |-> images[index + 1], current_index |-> index + 1]

\* _get_next_image, lines 186-193, for a non-empty list (Python indexes from
\* 0, a sequence from 1)
GetNextImage(images, index) ==
    [image |-> images[index + 1], current_index |-> (index + 1) % Len(images)]

\* the cache file of a URL: f"{hash(image_url)}.jpg", line 150
CachePath(seed, url) == <<seed, url>>

\* _download_image, lines 146-184, in a process whose hash salt is seed, with
\* the cache directory holding files: the image returned, the directory
\* afterwards and the HTTP requests made.  download is what requests.get
\* comes to, write what img.save comes to (a failed save leaves no file).
DownloadImage(url, seed, files, download, write) ==
    IF CachePath(seed, url) \in files
    THEN [img |-> url, files |-> files, http |-> 0, wrote |-> FALSE]
    ELSE IF download = "failed"
    THEN [img |-> NoImage, files |-> files, http |-> 1, wrote |-> FALSE]
    ELSE [img |-> url,
          files |-> IF write = "ok" THEN files \cup {CachePath(seed, url)}
                    ELSE files,
          http |-> 1, wrote |-> write = "ok"]

\* update_display line 330 with a guard that never holds
DueForUpdateAlways(t, updated) == TRUE

\* update_display, line 330, negated: the call goes on
DueForUpdate(t, updated) == ~(t - updated < DisplayTime)

\* update_display line 336 with a condition that always holds
NeedsFetchAlways(images, fetched, t) == TRUE

\* update_display, line 336
NeedsFetch(images, fetched, t) ==
    images = << >> \/ t - fetched >= UpdateInterval

\* __init__, lines 21-49, has returned: it ends with _fetch_rss_images()
InitRss ==
    /\ config = DefaultButtons
    /\ InitApp
    /\ hw = "absent"
    /\ NoResize
    /\ NoWeather
    /\ NoHandler
    /\ rss_now = StartClock
    /\ last_update = 0
    /\ cache_files = {}
    /\ hash_seed \in HashSeeds
    /\ rss_op = "init"
    /\ \E resp \in FeedResponses :
          LET f == FetchRssImages(<< >>, 0, 0, StartClock, resp)
          IN  /\ cached_images = f.cached_images
              /\ current_index = f.current_index
              /\ last_fetch = f.last_fetch
              /\ call_fetch = f.result
    /\ call_shows = 0
    /\ call_http = 0
    /\ call_sel = NoIndex
    /\ call_img = NoImage
    /\ call_url = NoImage
    /\ downloaded = {}

\* update_display, lines 325-376.  The messages and the image go to the
\* display inside try/except (lines 296-304, 315-323, 362-373), so a display
\* that fails changes nothing here.
UpdateDisplay ==
    /\ rss_op' = "update_display"
    /\ IF ~DueForUpdate(rss_now, last_update)
       THEN \* lines 330-331
            /\ call_fetch' = "none"
            /\ call_shows' = 0
            /\ call_http' = 0
            /\ call_sel' = NoIndex
            /\ call_img' = NoImage
            /\ call_url' = NoImage
            /\ UNCHANGED <<rss_now, cached_images, current_index, last_update,
                           last_fetch, cache_files, hash_seed, downloaded>>
       ELSE LET due == NeedsFetch(cached_images, last_fetch, rss_now)
            IN
            \E d \in IF due THEN 0..MaxDelay ELSE {0} :
            \E resp \in IF due THEN FeedResponses ELSE {NoResponse} :
            \E f \in { IF due
                       THEN FetchRssImages(cached_images, current_index,
                                           last_fetch, rss_now + d, resp)
                       ELSE [cached_images |-> cached_images,
                             current_index |-> current_index,
                             last_fetch |-> last_fetch, requests |-> 0,
                             result |-> "none"] } :
                /\ rss_now + d <= MaxClock
                \* line 333
                /\ last_update' = rss_now
                \* lines 336-338
                /\ rss_now' = rss_now + d
                /\ cached_images' = f.cached_images
                /\ last_fetch' = f.last_fetch
                /\ call_fetch' = IF f.requests = 0 THEN "none" ELSE f.result
                /\ IF f.cached_images = << >>
                   THEN \* lines 340-342
                        /\ current_index' = f.current_index
                        /\ call_shows' = 1 + (IF due THEN 1 ELSE 0)
                        /\ call_http' = 0
                        /\ call_sel' = NoIndex
                        /\ call_img' = NoImage
                        /\ call_url' = NoImage
                        /\ UNCHANGED <<cache_files, downloaded>>
                   ELSE \* lines 344-376
                        \E download \in {"ok", "failed"} :
                        \E write \in {"ok", "failed"} :
                        \E n \in { GetNextImage(f.cached_images,
                                                f.current_index) } :
                        \E g \in { DownloadImage(n.image, hash_seed,
                                                 cache_files, download,
                                                 write) } :
                           /\ current_index' = n.current_index
                           /\ call_sel' = f.current_index
                           /\ call_url' = n.image
                           /\ call_img' = g.img
                           /\ call_http' = g.http
                           /\ cache_files' = g.files
                           /\ downloaded' = IF g.wrote
                                            THEN downloaded \cup {n.image}
                                            ELSE downloaded
                           /\ call_shows' = (IF due THEN 1 ELSE 0)
                                            + (IF g.img = NoImage THEN 0
                                               ELSE 1)
                /\ UNCHANGED hash_seed
    /\ UNCHANGED <<weatherVars, handlerVars, appVars, resizeVars>>

\* time passes between two ticks of the scheduler
RssTick ==
    /\ rss_now < MaxClock
    /\ rss_now' = rss_now + 1
    /\ rss_op' = "tick"
    /\ UNCHANGED <<cached_images, current_index, last_update, last_fetch,
                   cache_files, hash_seed, call_fetch, call_shows, call_http,
                   call_sel, call_img, call_url, downloaded>>
    /\ UNCHANGED <<weatherVars, handlerVars, appVars, resizeVars>>

NextRss ==
    \/ UpdateDisplay
    \/ RssTick

SpecRss == InitRss /\ [][NextRss]_vars

-----------------------------------------------------------------------------
(* The image cache of an RSS mode across runs of the program.  The cache    *)
(* directory (data/cache/tumblr_rss and so on) outlives the process; the name *)
(* of a cache file is hash(image_url), and str.__hash__ is salted with a    *)
(* value drawn when the interpreter starts, unless PYTHONHASHSEED is set,   *)
(* which nothing in the repository does.                                    *)

\* the mode was constructed in a first run, with an empty cache directory
InitCache ==
    /\ config = DefaultButtons
    /\ InitApp
    /\ hw = "absent"
    /\ NoResize
    /\ NoWeather
    /\ NoHandler
    /\ rss_now = 0
    /\ cached_images = << >>
    /\ current_index = 0
    /\ last_update = 0
    /\ last_fetch = 0
    /\ cache_files = {}
    /\ hash_seed \in HashSeeds
    /\ rss_op = "init"
    /\ call_fetch = "none"
    /\ call_shows = 0
    /\ call_http = 0
    /\ call_sel = NoIndex
    /\ call_img = NoImage
    /\ call_url = NoImage
    /\ downloaded = {}

\* one call of _download_image, lines 146-184
CallDownloadImage ==
    \E url \in Urls : \E download \in {"ok", "failed"} :
    \E write \in {"ok", "failed"} :
       LET g == DownloadImage(url, hash_seed, cache_files, download, write)
       IN  /\ g.http = 0 => (download = "ok" /\ write = "ok")
           /\ download = "failed" => write = "ok"
           /\ rss_op' = "download"
           /\ call_url' = url
           /\ call_img' = g.img
           /\ call_http' = g.http
           /\ cache_files' = g.files
           /\ downloaded' = IF g.wrote THEN downloaded \cup {url}
                            ELSE downloaded
           /\ UNCHANGED <<rss_now, cached_images, current_index, last_update,
                          last_fetch, hash_seed, call_fetch, call_shows,
                          call_sel>>
           /\ UNCHANGED <<weatherVars, handlerVars, appVars, resizeVars>>

\* the program is started again (a reboot, a restart of the service): the
\* interpreter draws a salt, the cache directory is as it was left
Restart ==
    /\ hash_seed' \in HashSeeds
    /\ rss_op' = "restart"
    /\ call_url' = NoImage
    /\ call_img' = NoImage
    /\ call_http' = 0
    /\ UNCHANGED <<rss_now, cached_images, current_index, last_update,
                   last_fetch, cache_files, call_fetch, call_shows, call_sel,
                   downloaded>>
    /\ UNCHANGED <<weatherVars, handlerVars, appVars, resizeVars>>

NextCache ==
    \/ CallDownloadImage
    \/ Restart

SpecCache == InitCache /\ [][NextCache]_vars

-----------------------------------------------------------------------------
(* The weather modes: WeatherMode (src/modules/weather.py) and              *)
(* WeatherHTMLMode (src/modules/weather_html.py), both over one             *)
(* WeatherAPIClient (src/modules/weather_api.py).  The scheduler thread is  *)
(* the only caller of update_display, so one call is one step.  The clock   *)
(* of this part counts seconds.                                             *)

\* the clock of the weather modes stops at MaxWeatherClock
MaxWeatherClock == 8

\* the configured display_time of the weather modes
WeatherDisplayTime == 2

\* the configured cache_duration
CacheDuration == 3

\* time.time() when the mode is constructed: the epoch is further back than
\* any interval, so the first call of update_display is due
WeatherStart == CacheDuration

\* the two classes
WeatherKinds == {"weather", "weather_html"}

\* get_weather_data where a failed fetch returns None whatever the cache holds
GetWeatherDataNoFallback(cache, t, api, save) ==
    IF cache # NoData /\ t - cache < CacheDuration
    THEN [data |-> cache, cache |-> cache, api |-> "none"]
    ELSE IF api = "ok"
    THEN [data |-> t,
          cache |-> CASE save = "ok" -> t
                      [] save = "open failed" -> cache
                      [] save = "dump failed" -> NoData,
          api |-> "ok"]
    ELSE [data |-> NoData, cache |-> cache, api |-> "failed"]

\* WeatherAPIClient.get_weather_data, lines 36-58, at time t with the cache
\* file holding data fetched at cache (NoData: no file, or none that
\* _load_from_cache can read).  Weather data is named by its fetched_at.
\* api is what _fetch_from_api comes to (lines 60-83: it returns the
\* processed data or raises); save is what _save_to_cache comes to (lines
\* 178-184): the file written, or open() failed and the file is as it was,
\* or json.dump failed after open() had truncated the file.
GetWeatherData(cache, t, api, save) ==
    IF cache # NoData /\ t - cache < CacheDuration
    THEN [data |-> cache, cache |-> cache, api |-> "none"]
    ELSE IF api = "ok"
    THEN [data |-> t,
          cache |-> CASE save = "ok" -> t
                      [] save = "open failed" -> cache
                      [] save = "dump failed" -> NoData,
          api |-> "ok"]
    ELSE [data |-> cache, cache |-> cache, api |-> "failed"]

\* what _generate_weather_display can come to once data is there.
\* WeatherMode (weather.py 73-88) returns the image or raises from the
\* drawing code.  WeatherHTMLMode (weather_html.py 237-252) returns what
\* _render_with_browser returns, and that function catches every exception
\* of its own and returns None (lines 334-336), so the fallback of line 252
\* is never reached; without playwright it returns the fallback image.
RenderOutcomes(kind) ==
    IF kind = "weather" THEN {"image", "raised"}
    ELSE {"image", "render failed"}

\* a weather mode has been constructed (weather.py 18-38, weather_html.py
\* 22-60); the cache file may be there from an earlier run
InitWeather ==
    /\ config = DefaultButtons
    /\ InitApp
    /\ hw = "absent"
    /\ NoResize
    /\ NoRss
    /\ NoHandler
    /\ weather_now = WeatherStart
    /\ weather_kind \in WeatherKinds
    /\ weather_cache \in {NoData} \cup (0..WeatherStart)
    /\ weather_last_update = 0
    /\ weather_op = "init"
    /\ weather_api = "none"
    /\ weather_data = NoData
    /\ weather_shown = FALSE
    /\ weather_errs = 0
    /\ weather_exc = FALSE

\* update_display, weather.py 40-71 and weather_html.py 194-235.
\* DisplayUtils.show_error (display_utils.py 193-211) does not raise.
WeatherUpdateDisplay ==
    /\ weather_op' = "update_display"
    /\ IF weather_now - weather_last_update < WeatherDisplayTime
       THEN /\ weather_api' = "none"
            /\ weather_shown' = FALSE
            /\ weather_errs' = 0
            /\ weather_exc' = FALSE
            /\ UNCHANGED <<weather_cache, weather_last_update, weather_data>>
       ELSE \E api \in {"ok", "failed"} :
            \E save \in {"ok", "open failed", "dump failed"} :
            \E render \in RenderOutcomes(weather_kind) :
            \E show \in {"ok", "raised"} :
            LET g == GetWeatherData(weather_cache, weather_now, api, save)
            IN  /\ g.api = "none" => (api = "ok" /\ save = "ok")
                /\ g.api = "failed" => save = "ok"
                /\ g.data = NoData => (render = "image" /\ show = "ok")
                /\ render # "image" => show = "ok"
                /\ weather_api' = g.api
                /\ weather_cache' = g.cache
                /\ weather_data' = g.data
                /\ IF g.data = NoData
                   THEN \* the else branch: "Weather data unavailable"
                        /\ weather_shown' = FALSE
                        /\ weather_errs' = 1
                        /\ weather_exc' = (g.api = "failed")
                        /\ UNCHANGED weather_last_update
                   ELSE IF render = "render failed"
                   THEN \* weather_img is None: neither branch does anything
                        /\ weather_shown' = FALSE
                        /\ weather_errs' = 0
                        /\ weather_exc' = TRUE
                        /\ UNCHANGED weather_last_update
                   ELSE IF render = "raised" \/ show = "raised"
                   THEN \* the except clause of update_display
                        /\ weather_shown' = FALSE
                        /\ weather_errs' = 1
                        /\ weather_exc' = TRUE
                        /\ UNCHANGED weather_last_update
                   ELSE \* set_image and show have returned
                        /\ weather_shown' = TRUE
                        /\ weather_errs' = 0
                        /\ weather_exc' = (g.api = "failed")
                        /\ weather_last_update' = weather_now
    /\ UNCHANGED <<weather_now, weather_kind>>
    /\ UNCHANGED <<rssVars, handlerVars, appVars, resizeVars>>

\* time passes between two ticks of the scheduler
WeatherTick ==
    /\ weather_now < MaxWeatherClock
    /\ weather_now' = weather_now + 1
    /\ weather_op' = "tick"
    /\ UNCHANGED <<weather_kind, weather_cache, weather_last_update,
                   weather_api, weather_data, weather_shown, weather_errs,
                   weather_exc>>
    /\ UNCHANGED <<rssVars, handlerVars, appVars, resizeVars>>

NextWeather ==
    \/ WeatherUpdateDisplay
    \/ WeatherTick

SpecWeather == InitWeather /\ [][NextWeather]_vars

-----------------------------------------------------------------------------
(* ButtonHandler on its own: _monitor_buttons (button_handler.py 120-144)   *)
(* with a callback that can raise, a read that can raise, and stop() (lines *)
(* 99-104) called from another thread.  Each action of the monitor thread   *)
(* is one step between two reads of self.running.  Edge events are numbered *)
(* in the order in which the kernel reports them.                           *)

\* edge events in one run
MaxEvents == 3

\* exceptions raised in one run
MaxErrors == 2

\* start() has set running and started the thread (lines 92-97)
InitHandler ==
    /\ config = DefaultButtons
    /\ InitApp
    /\ hw = "ok"
    /\ NoResize
    /\ NoRss
    /\ NoWeather
    /\ mon_pc = "loop"
    /\ mon_running = TRUE
    /\ mon_queue = << >>
    /\ mon_batch = << >>
    /\ mon_ev = 0
    /\ mon_late = FALSE
    /\ mon_seen = 0
    /\ mon_calls = {}
    /\ mon_caught = 0
    /\ mon_err_at = 0

\* a button goes down: the kernel queues an edge event
MonEdge ==
    /\ mon_seen < MaxEvents
    /\ mon_seen' = mon_seen + 1
    /\ mon_queue' = Append(mon_queue, mon_seen + 1)
    /\ UNCHANGED <<mon_pc, mon_running, mon_batch, mon_ev, mon_late,
                   mon_calls, mon_caught, mon_err_at>>
    /\ UNCHANGED <<rssVars, weatherVars, appVars, resizeVars>>

\* stop(), line 101; the join of line 103 gives up after 2 s
MonStop ==
    /\ mon_running
    /\ mon_running' = FALSE
    /\ UNCHANGED <<mon_pc, mon_queue, mon_batch, mon_ev, mon_late, mon_seen,
                   mon_calls, mon_caught, mon_err_at>>
    /\ UNCHANGED <<rssVars, weatherVars, appVars, resizeVars>>

\* line 122: while self.running
MonLoop ==
    /\ mon_pc = "loop"
    /\ mon_pc' = IF mon_running THEN "read" ELSE "exited"
    /\ UNCHANGED <<mon_running, mon_queue, mon_batch, mon_ev, mon_late,
                   mon_seen, mon_calls, mon_caught, mon_err_at>>
    /\ UNCHANGED <<rssVars, weatherVars, appVars, resizeVars>>

\* line 124: read_edge_events() blocks until there is an event and returns
\* all that are queued
MonRead ==
    /\ mon_pc = "read"
    /\ mon_queue # << >>
    /\ mon_batch' = mon_queue
    /\ mon_queue' = << >>
    /\ mon_pc' = "for"
    /\ UNCHANGED <<mon_running, mon_ev, mon_late, mon_seen, mon_calls,
                   mon_caught, mon_err_at>>
    /\ UNCHANGED <<rssVars, weatherVars, appVars, resizeVars>>

\* line 124: read_edge_events() raises
MonReadRaise ==
    /\ mon_pc = "read"
    /\ mon_caught < MaxErrors
    /\ mon_pc' = "except"
    /\ UNCHANGED <<mon_running, mon_queue, mon_batch, mon_ev, mon_late,
                   mon_seen, mon_calls, mon_caught, mon_err_at>>
    /\ UNCHANGED <<rssVars, weatherVars, appVars, resizeVars>>

\* line 124: the for loop hands out the next event of the list, or ends
MonFor ==
    /\ mon_pc = "for"
    /\ IF mon_batch = << >>
       THEN /\ mon_pc' = "loop"
            /\ UNCHANGED <<mon_batch, mon_ev, mon_late>>
       ELSE /\ mon_ev' = Head(mon_batch)
            /\ mon_batch' = Tail(mon_batch)
            /\ mon_late' = ~mon_running
            /\ mon_pc' = "check"
    /\ UNCHANGED <<mon_running, mon_queue, mon_seen, mon_calls, mon_caught,
                   mon_err_at>>
    /\ UNCHANGED <<rssVars, weatherVars, appVars, resizeVars>>

\* lines 125-126 without the test of self.running
MonCheckRunningSkipped ==
    /\ mon_pc = "check"
    /\ mon_pc' = "flash"
    /\ UNCHANGED mon_batch
    /\ UNCHANGED <<mon_running, mon_queue, mon_ev, mon_late, mon_seen,
                   mon_calls, mon_caught, mon_err_at>>
    /\ UNCHANGED <<rssVars, weatherVars, appVars, resizeVars>>

\* lines 125-126: if not self.running: break
MonCheckRunning ==
    /\ mon_pc = "check"
    /\ IF mon_running
       THEN mon_pc' = "flash" /\ UNCHANGED mon_batch
       ELSE mon_pc' = "loop" /\ mon_batch' = << >>
    /\ UNCHANGED <<mon_running, mon_queue, mon_ev, mon_late, mon_seen,
                   mon_calls, mon_caught, mon_err_at>>
    /\ UNCHANGED <<rssVars, weatherVars, appVars, resizeVars>>

\* lines 128-136: the label is looked up and the LED flashed; _flash_led
\* catches the exceptions of the LED line itself (lines 111-118)
MonFlash ==
    /\ mon_pc = "flash"
    /\ mon_pc' = "callback"
    /\ UNCHANGED <<mon_running, mon_queue, mon_batch, mon_ev, mon_late,
                   mon_seen, mon_calls, mon_caught, mon_err_at>>
    /\ UNCHANGED <<rssVars, weatherVars, appVars, resizeVars>>

\* lines 139-140: the callback is invoked, and returns or raises
MonCallback ==
    /\ mon_pc = "callback"
    /\ mon_calls' = mon_calls \cup {mon_ev}
    /\ \/ mon_pc' = "for"
       \/ mon_caught < MaxErrors /\ mon_pc' = "except"
    /\ UNCHANGED <<mon_running, mon_queue, mon_batch, mon_ev, mon_late,
                   mon_seen, mon_caught, mon_err_at>>
    /\ UNCHANGED <<rssVars, weatherVars, appVars, resizeVars>>

\* lines 142-144: the exception is logged, the thread sleeps 0.1 s and goes
\* back to line 122; what was left of the list of events is gone
MonExcept ==
    /\ mon_pc = "except"
    /\ mon_caught' = mon_caught + 1
    /\ mon_err_at' = mon_seen
    /\ mon_batch' = << >>
    /\ mon_pc' = "loop"
    /\ UNCHANGED <<mon_running, mon_queue, mon_ev, mon_late, mon_seen,
                   mon_calls>>
    /\ UNCHANGED <<rssVars, weatherVars, appVars, resizeVars>>

NextHandler ==
    \/ MonEdge
    \/ MonStop
    \/ MonLoop
    \/ MonRead
    \/ MonReadRaise
    \/ MonFor
    \/ MonCheckRunning
    \/ MonFlash
    \/ MonCallback
    \/ MonExcept

SpecHandler == InitHandler /\ [][NextHandler]_vars

-----------------------------------------------------------------------------
(* Properties *)

\* the step on which check_and_switch_mode resets the flag and returns
ClearStep == pc = "clear" /\ pc' = "run"

\* C1: for distinct registered modes A and B, a call of
\* check_and_switch_mode that begins with current_mode = A and reads a
\* pending switch to B ends with current_mode = B and the switch empty.
C1_PendingSwitchApplied ==
    [][ (ClearStep /\ sm_pre \in Modes /\ target \in Modes /\ target # sm_pre)
          => (current_mode' = target /\ switch' = NoSwitch) ]_vars

C1_Witness ==
    /\ pc = "run" /\ ret = "True"
    /\ sm_pre \in Modes /\ sm_arg = target /\ target # sm_pre
    /\ current_mode = target
    /\ switch = NoSwitch

\* C2: of two presses accepted with no tick in between, the first for a
\* mode B other than the current one, the later one is the pending switch,
\* also when it names the current mode: the next check_and_switch_mode
\* does not switch to B.
C2_LastWriterWins ==
    (/\ bpc = "wait"
     /\ Len(presses) >= 2
     /\ ButtonModes[presses[Len(presses) - 1]] # current_mode)
       => /\ switch # NoSwitch
          /\ ButtonModes[switch] = ButtonModes[presses[Len(presses)]]

\* C3: a request the button thread records while the scheduler is between
\* reading and resetting the flag is applied in this tick or still pending
\* when check_and_switch_mode returns.
C3_NoLostPress ==
    [][ (ClearStep /\ raced /\ switch # NoSwitch)
          => (ButtonModes[switch] = current_mode' \/ switch' = switch) ]_vars

\* C4: a call of check_and_switch_mode that reads a pending switch to the
\* mode already current leaves current_mode as it was, empties the switch
\* and starts no LED pattern.
C4_SameModeNoOp ==
    [][ (ClearStep /\ sm_pre \in Modes /\ target = sm_pre)
          => (current_mode' = sm_pre /\ switch' = NoSwitch /\ sm_ack' = 0
              /\ sm_log' = "info: already in mode") ]_vars

C4_Witness ==
    /\ pc = "run" /\ ret = "True" /\ hw = "ok"
    /\ sm_pre \in Modes /\ sm_arg = sm_pre /\ target = sm_pre
    /\ current_mode = sm_pre
    /\ switch = NoSwitch
    /\ sm_ack = 0

\* C5: switch_mode with a name that is no key of self.modes leaves
\* current_mode as it was, starts no LED pattern, logs an error and returns
\* to its caller.
C5_UnknownModeRejected ==
    (sm_arg \notin Modes /\ sm_arg # None)
       => /\ current_mode = sm_pre
          /\ sm_ack = 0
          /\ sm_log = "error: unknown mode"
          /\ pc # "crashed"

C5_Witness ==
    /\ sm_arg \in UnknownModes
    /\ sm_pre \in Modes
    /\ current_mode = sm_pre
    /\ sm_log = "error: unknown mode"
    /\ hw = "ok"

\* C6: current_mode is None or a key of self.modes in every state, and once
\* it is a key it stays one.
C6_CurrentModeValid ==
    /\ [](current_mode \in Modes \cup {None})
    /\ [][ (current_mode \in Modes) => (current_mode' \in Modes) ]_vars

C6_Witness ==
    /\ current_mode = "news_feed"
    /\ sm_arg \in UnknownModes
    /\ pc = "check"

\* C7: when update_display raises in a tick, show_error is called once in
\* that tick, update_display is not called again in it, the exception does
\* not leave the loop, and the loop goes on to its next iteration.
C7_UpdateErrorShownOnce ==
    /\ []((pc = "sleep" /\ tick_exc = "Exception")
            => (tick_errs = 1 /\ tick_updates = 1))
    /\ [][ (pc = "except" /\ pc' # pc /\ pc' # "stopped")
             => (pc' = "sleep" /\ tick_errs' = 1
                 /\ tick_updates' = tick_updates) ]_vars
    /\ [][ (pc = "sleep" /\ pc' # pc /\ pc' # "stopped") => pc' = "loop" ]_vars

C7_Witness ==
    /\ pc = "loop"
    /\ tick_exc = "Exception"
    /\ tick_errs = 1
    /\ tick_updates = 1
    /\ running

\* C8: in every tick check_and_switch_mode has returned before an update
\* is called, exactly one update is invoked, that of current_mode, and no
\* two modes are updating at once.
C8_OneUpdatePerTick ==
    /\ Cardinality(in_update) <= 1
    /\ pc = "updating" => (ret # "none" /\ in_update = {current_mode})
    /\ (pc = "sleep" /\ ret # "none") => tick_updates = 1

\* C9: current_mode changes only on a step of the scheduler thread, at
\* startup or in check_and_switch_mode, and never while an update_display
\* is executing.
C9_OnlySchedulerChangesMode ==
    [][ /\ (current_mode' # current_mode)
               => (pc \in {"start", "apply"} /\ pc' # pc)
        /\ (in_update # {}) => (current_mode' = current_mode) ]_vars

C9_Witness ==
    /\ pc = "updating"
    /\ in_update = {current_mode}
    /\ bpc = "wait"
    /\ presses # << >>
    /\ switch # NoSwitch

\* C10: for every registered mode, a tick with that mode current invokes
\* its update_display and is not diverted to show_error by an
\* AttributeError.
C10_EveryModeHasUpdate ==
    \A m \in Modes :
        (current_mode = m /\ pc \in {"updating", "except", "sleep"} /\ ret # "none")
           => /\ exc # "AttributeError"
              /\ tick_exc # "AttributeError"
              /\ tick_updates = 1

\* C13: with the GPIO library absent or the chip request failed, the
\* monitor thread never runs and no callback is invoked, switch stays None,
\* current_mode stays the startup mode, and every tick still calls the
\* update_display of the current mode.
C13_RunsWithoutButtons ==
    hw # "ok" =>
        /\ ~bh_running
        /\ bpc = "wait" /\ bnum = NoSwitch /\ last_button_press = 0
        /\ switch = NoSwitch
        /\ current_mode \in {None, "photo_cycle"}
        /\ pc # "crashed"
        /\ (pc = "sleep" /\ ret # "none") => tick_updates = 1

C16_TrueIffChanged ==
    /\ []((pc = "run" /\ ret = "True") => current_mode # sm_pre)
    /\ [][ (pc = "check" /\ pc' = "run")
             => (ret' = "False" /\ current_mode' = current_mode
                 /\ switch' = switch) ]_vars

\* C11: the mode a press of button X requests is the one the "buttons"
\* section of the loaded configuration gives for X (A = button_1, ...,
\* D = button_4); a button with no entry, or with an entry that is no
\* registered mode, requests nothing.
C11_ButtonsFromConfig ==
    [][ (bpc = "set" /\ bpc' = "wait")
          => (/\ ConfiguredMode(bnum) \in Modes
              /\ switch' # NoSwitch
              /\ ButtonModes[switch'] = ConfiguredMode(bnum)) ]_vars

\* C14: an update_display in flight is left only by its return or by its
\* own exception, the loop of start() does not end while an update is in
\* flight, after running is cleared no tick begins, and stop() clears the
\* running flag of the button handler.
C14_CooperativeShutdown ==
    /\ [][ pc = "updating" => pc' \in {"updating", "sleep", "except"} ]_vars
    /\ [][ (pc # "stopped" /\ pc' = "stopped") => in_update = {} ]_vars
    /\ [][ ~running => pc' # "check" ]_vars
    /\ [](~running => ~bh_running)

\* C17: every call of resize_with_aspect_ratio, in FIT and in FILL mode,
\* with or without auto-rotate, returns a canvas of exactly the target
\* width and height.
C17_CanvasHasTargetSize ==
    rpc = "done" => (out = "canvas" /\ out_size = target_size)

\* C19: in FILL mode the scale is the larger of the two quotients, both
\* truncated dimensions are at least the target's, both offsets are at most
\* 0 and the pasted image covers the canvas; source 1200 x 1200 on 800 x 480
\* gives 800 x 800 pasted at (0, -160).
C19_FillCoversCanvas ==
    (rpc = "done" /\ fill_screen) =>
        /\ new_size[1] >= target_size[1]
        /\ new_size[2] >= target_size[2]
        /\ out = "canvas"
        /\ paste_at[1] <= 0 /\ paste_at[2] <= 0
        /\ paste_at[1] + new_size[1] >= target_size[1]
        /\ paste_at[2] + new_size[2] >= target_size[2]
        /\ (src_size = ScenarioSource /\ target_size = ScenarioTarget)
              => (new_size = <<800, 800>> /\ paste_at = <<0, 0 - 160>>)

\* C18: in FIT mode the scale is the smaller of target_w / src_w and
\* target_h / src_h, both truncated dimensions are at most the target's,
\* both centering offsets are at least 0 and the pasted image lies inside
\* the canvas; source 1200 x 1200 on 800 x 480 gives 480 x 480 pasted at
\* (160, 0).
C18_FitInsideCanvas ==
    (rpc = "done" /\ ~fill_screen) =>
        /\ \E s \in {<<target_size[1], img_size[1]>>,
                     <<target_size[2], img_size[2]>>} :
              /\ ~RatLess(target_size[1], img_size[1], s[1], s[2])
              /\ ~RatLess(target_size[2], img_size[2], s[1], s[2])
              /\ new_size = NewSize(img_size, s)
        /\ new_size[1] <= target_size[1]
        /\ new_size[2] <= target_size[2]
        /\ (target_size[1] - new_size[1]) \div 2 >= 0
        /\ (target_size[2] - new_size[2]) \div 2 >= 0
        /\ out = "canvas" =>
              /\ paste_at[1] = (target_size[1] - new_size[1]) \div 2
              /\ paste_at[2] = (target_size[2] - new_size[2]) \div 2
              /\ paste_at[1] + new_size[1] <= target_size[1]
              /\ paste_at[2] + new_size[2] <= target_size[2]
        /\ (src_size = ScenarioSource /\ target_size = ScenarioTarget)
              => (out = "canvas" /\ new_size = <<480, 480>>
                  /\ paste_at = <<160, 0>>)

C18_Witness ==
    /\ rpc = "done" /\ ~fill_screen /\ ~auto_rotate
    /\ src_size = ScenarioSource /\ target_size = ScenarioTarget
    /\ out = "canvas"
    /\ new_size = <<480, 480>>
    /\ paste_at = <<160, 0>>

\* C20: with auto_rotate the image is turned by 90 degrees exactly when
\* min(target_w / src_h, target_h / src_w) is strictly greater than
\* min(target_w / src_w, target_h / src_h); on equal ratios, and without
\* auto_rotate, the orientation is kept.
C20_RotateIffStrictlyBetter ==
    rpc \in {"resize", "done"} =>
        LET fit == {<<target_size[1], src_size[1]>>, <<target_size[2], src_size[2]>>}
            rotated_fit == {<<target_size[1], src_size[2]>>,
                            <<target_size[2], src_size[1]>>}
            better == \A r \in rotated_fit : \E c \in fit :
                          RatLess(c[1], c[2], r[1], r[2])
        IN  /\ rotated <=> (auto_rotate /\ better)
            /\ img_size = IF rotated THEN <<src_size[2], src_size[1]>> ELSE src_size

C20_Witness ==
    /\ rpc = "done"
    /\ auto_rotate
    /\ src_size = <<2, 1>> /\ target_size = <<3, 3>>
    /\ ~rotated
    /\ img_size = src_size

\* C12: presses less than 500 ms apart are coalesced: a press whose button
\* went down less than 500 ms after that of the latest accepted press is
\* not accepted, and changes neither switch nor last_button_press.
C12_PressesCoalesced ==
    [][ (bpc = "led" /\ bpc' # "led" /\ ev[2] - acc_edge < Debounce)
          => (/\ bpc' = "wait"
              /\ switch' = switch
              /\ last_button_press' = last_button_press) ]_vars

\* C21: the default configuration has a section for every available mode
\* (photo_cycle, tumblr_rss, deviantart_rss, news_feed) and maps each of
\* button_1 .. button_4 to an available mode.
C21_DefaultConfigComplete ==
    /\ AvailableModes \subseteq DefaultSections
    /\ \A n \in 0..3 :
          /\ ButtonKey[n] \in DOMAIN config
          /\ config[ButtonKey[n]] \in AvailableModes

\* C22: the LED pattern runs on a thread of its own: the step that calls
\* switch_mode returns to check_and_switch_mode with the whole pattern
\* still to be flashed, and however many flashes are outstanding the
\* scheduler thread can take its next step, up to and including the
\* update_display that follows.
C22_AckDoesNotBlock ==
    /\ [][ (pc = "apply" /\ pc' # pc /\ pc' # "stopped")
             => (/\ pc' = "clear"
                 /\ sm_log' = "info: switched" => led_left' = sm_ack') ]_vars
    /\ [](pc = "clear" => ENABLED ClearSwitch)
    /\ [](pc = "run" => ENABLED RunCurrentMode)
    /\ [](pc = "updating" => ENABLED UpdateReturn)

C22_Witness ==
    /\ pc = "updating"
    /\ hw = "ok"
    /\ sm_pre = "photo_cycle"
    /\ current_mode = "tumblr_rss"
    /\ sm_ack = 2
    /\ led_left = 2
    /\ in_update = {"tumblr_rss"}


\* C23: in an RSS image mode a call of update_display less than display_time
\* after the previous attempt changes no field and makes no feed request, no
\* image request and no display call; a call that goes on records its time
\* in last_update whatever comes of it, so every fetch or display happens at
\* least display_time after the previous attempt
C23_OneAttemptPerWindow ==
    /\ [][ (rss_op' = "update_display" /\ rss_now - last_update < DisplayTime)
             => (/\ UNCHANGED <<cached_images, current_index, last_update,
                                last_fetch, cache_files>>
                 /\ call_fetch' = "none"
                 /\ call_shows' = 0
                 /\ call_http' = 0) ]_vars
    /\ [][ (rss_op' = "update_display" /\ rss_now - last_update >= DisplayTime)
             => last_update' = rss_now ]_vars
    /\ [][ (/\ rss_op' = "update_display"
            /\ (call_fetch' # "none" \/ call_shows' > 0 \/ call_http' > 0))
             => rss_now - last_update >= DisplayTime ]_vars

\* a call one second after an attempt whose fetch failed was skipped
C23_Witness ==
    /\ rss_op = "update_display"
    /\ cached_images = << >>
    /\ last_update = StartClock
    /\ rss_now = last_update + 1
    /\ call_fetch = "none"
    /\ call_shows = 0


\* C24: a call of update_display makes a feed request only when the image
\* list is empty or last_fetch is at least update_interval old when the call
\* begins, and last_fetch is the time of the latest successful fetch
C24_FetchOnlyWhenEmptyOrStale ==
    /\ [][ (rss_op' = "update_display" /\ call_fetch' # "none")
             => (cached_images = << >>
                 \/ rss_now - last_fetch >= UpdateInterval) ]_vars
    /\ [][ rss_op' = "update_display"
             => IF call_fetch' = "fetched" THEN last_fetch' = rss_now'
                ELSE last_fetch' = last_fetch ]_vars

\* a call that was due showed the next image of a fresh list without a feed
\* request
C24_Witness ==
    /\ rss_op = "update_display"
    /\ cached_images # << >>
    /\ rss_now - last_fetch < UpdateInterval
    /\ last_update = rss_now
    /\ call_fetch = "none"
    /\ call_sel # NoIndex
    /\ call_shows = 1



\* what a feed request that brought no image is logged as
FetchFailures == {"RequestException", "ParseError", "Exception", "no images"}

\* C25: a call of update_display whose feed request fails or finds no valid
\* image keeps cached_images and last_fetch, goes on to show the image at
\* the current_index it found, and leaves the fetch due: every later call
\* that is not skipped and finds the list empty or stale makes a feed request
C25_FailedFetchKeepsCache ==
    /\ [][ (rss_op' = "update_display" /\ call_fetch' \in FetchFailures)
             => (/\ cached_images' = cached_images
                 /\ last_fetch' = last_fetch
                 /\ IF cached_images = << >>
                    THEN call_sel' = NoIndex /\ current_index' = current_index
                    ELSE /\ call_sel' = current_index
                         /\ call_url' = cached_images[current_index + 1]
                 /\ NeedsFetch(cached_images', last_fetch', rss_now')) ]_vars
    /\ [][ (/\ rss_op' = "update_display"
            /\ rss_now - last_update >= DisplayTime
            /\ NeedsFetch(cached_images, last_fetch, rss_now))
             => call_fetch' # "none" ]_vars

\* the refetch of a stale list failed and the next cached image was shown
C25_Witness ==
    /\ rss_op = "update_display"
    /\ call_fetch = "ParseError"
    /\ cached_images # << >>
    /\ rss_now - last_fetch >= UpdateInterval
    /\ call_sel # NoIndex
    /\ call_img = call_url
    /\ call_shows = 2


\* C26: in every reachable state of an RSS image mode cached_images holds at
\* most max_posts pairwise distinct URLs and current_index is inside the
\* list.  Successive selections follow the list cyclically: a call selects
\* the first entry when its fetch succeeded and else the entry at
\* current_index, and leaves current_index at the cyclic successor of the
\* entry it selected; no other step moves current_index inside the list.
C26_CyclicOrder ==
    /\ [](/\ Len(cached_images) <= MaxPosts
          /\ \A i, j \in 1..Len(cached_images) :
                cached_images[i] = cached_images[j] => i = j
          /\ cached_images # << >>
                => (0 <= current_index /\ current_index < Len(cached_images)))
    /\ [][ (rss_op' = "update_display" /\ call_sel' # NoIndex)
             => (/\ call_sel' = IF call_fetch' = "fetched" THEN 0
                                ELSE current_index
                 /\ call_url' = cached_images'[call_sel' + 1]
                 /\ current_index' = (call_sel' + 1) % Len(cached_images')) ]_vars
    /\ [][ (call_sel' = NoIndex \/ rss_op' # "update_display")
             => current_index' = current_index ]_vars

\* a call selected the last image of a full list and current_index wrapped
\* to the first
C26_Witness ==
    /\ rss_op = "update_display"
    /\ Len(cached_images) = MaxPosts
    /\ call_fetch = "none"
    /\ call_sel = MaxPosts - 1
    /\ call_url = cached_images[MaxPosts]
    /\ current_index = 0


\* C27: the image cache is read-if-present, write-if-absent.  A call of
\* _download_image for a URL whose cache file an earlier call has written
\* makes no HTTP request, returns the image and leaves the directory as it
\* is; a call for a URL without a cache file makes one request and, when
\* the download and the write succeed, the file is there afterwards; a
\* failed download returns no image and creates no file; a download whose
\* cache write fails still returns the image.
C27_ReadIfPresentWriteIfAbsent ==
    /\ [][ (rss_op' = "download" /\ call_url' \in downloaded)
             => (/\ call_http' = 0
                 /\ call_img' = call_url'
                 /\ cache_files' = cache_files) ]_vars
    /\ [][ (rss_op' = "download" /\ call_url' \notin downloaded)
             => (/\ call_http' = 1
                 /\ call_img' = NoImage => cache_files' = cache_files
                 /\ cache_files' # cache_files
                       => (call_img' = call_url' /\ call_url' \in downloaded')) ]_vars
    /\ [][ rss_op' = "download" => cache_files \subseteq cache_files' ]_vars


\* C28: get_weather_data returns the cached data without an API call while
\* the cache is younger than cache_duration; otherwise it calls the API,
\* returns the fetched data when the call succeeds, changes the cache file
\* only then, returns the stale cached data when the call fails, and returns
\* no data exactly when the call fails and there is no cache
C28_CacheThenApiThenStale ==
    [][ (/\ weather_op' = "update_display"
         /\ weather_now - weather_last_update >= WeatherDisplayTime)
          => IF weather_cache # NoData
                /\ weather_now - weather_cache < CacheDuration
             THEN /\ weather_api' = "none"
                  /\ weather_data' = weather_cache
                  /\ weather_cache' = weather_cache
             ELSE /\ weather_api' \in {"ok", "failed"}
                  /\ weather_api' = "ok" => weather_data' = weather_now
                  /\ weather_cache' # weather_cache
                        => (weather_api' = "ok"
                            /\ weather_cache' \in {weather_data', NoData})
                  /\ weather_api' = "failed" => weather_data' = weather_cache
                  /\ weather_data' = NoData
                        <=> (weather_api' = "failed" /\ weather_cache = NoData)
      ]_vars

\* the API call failed and the stale data of the cache file was returned
C28_Witness ==
    /\ weather_op = "update_display"
    /\ weather_api = "failed"
    /\ weather_data # NoData
    /\ weather_data = weather_cache
    /\ weather_now - weather_cache >= CacheDuration


\* C29: in both weather modes update_display advances last_update only in a
\* call in which the weather image was set and shown, and a call in which no
\* data is available or an exception is raised invokes the error display
\* once and leaves last_update as it was
C29_RetryAfterFailure ==
    /\ [][ (/\ weather_op' = "update_display"
            /\ weather_last_update' # weather_last_update)
             => (weather_shown' /\ weather_last_update' = weather_now) ]_vars
    /\ [][ (/\ weather_op' = "update_display"
            /\ weather_now - weather_last_update >= WeatherDisplayTime
            /\ (weather_data' = NoData \/ (weather_exc' /\ ~weather_shown')))
             => (/\ weather_errs' = 1
                 /\ weather_last_update' = weather_last_update) ]_vars


\* C30: the button monitor survives errors and respects stop.  An exception
\* raised by read_edge_events or by the callback is caught: the thread goes
\* back to the head of its loop with running as it was, it ends only after
\* running was cleared, and the read of later events is never shut off
\* while it runs.  The callback is never invoked for an event whose round of
\* the for loop began after stop() had cleared running.
C30_SurvivesErrorsRespectsStop ==
    /\ [][ (mon_pc = "except" /\ mon_pc' # mon_pc)
             => (/\ mon_pc' = "loop"
                 /\ mon_running' = mon_running
                 /\ mon_queue' = mon_queue) ]_vars
    /\ [](mon_pc = "except" => ENABLED MonExcept)
    /\ [](mon_pc = "loop" => ENABLED MonLoop)
    /\ []((mon_pc = "read" /\ mon_queue # << >>) => ENABLED MonRead)
    /\ [](mon_pc = "exited" => ~mon_running)
    /\ [][ mon_calls' # mon_calls
             => (~mon_late /\ mon_calls' = mon_calls \cup {mon_ev}) ]_vars
    /\ [](mon_late => mon_pc \notin {"flash", "callback"})

\* after a caught exception the callback was invoked for an event that
\* arrived later, and then an event was handed out after stop()
C30_Witness ==
    /\ mon_caught > 0
    /\ \E e \in mon_calls : e > mon_err_at
    /\ mon_late
    /\ mon_ev \notin mon_calls
    /\ mon_pc = "exited"

=============================================================================
